---- MODULE Spec2Model ----
(***************************************************************************)
(* A model of japanir-automation: the importance parser, the category      *)
(* classifier, the ranker (sort, dedup by company, top-N), the publish     *)
(* orchestrator with whole-run retry (IR-JsonToX.py and its variants), the *)
(* image pipeline (4_IR_ImageGenerator.py, 2_html_generator.py) and the    *)
(* text generator with its length cap.                                     *)
(*                                                                         *)
(* Text is modelled as a sequence of characters; every character is a      *)
(* one-token string.  The five characters of the regular expression's      *)
(* class [★☆â˜…] are written by their code points.                          *)
(***************************************************************************)
EXTENDS Integers, Sequences, FiniteSets, TLC

VARIABLES
    \* ---- get_importance_stars, called on one value
    importance_str,   \* the argument: a character sequence, or None
    stars,            \* the value returned
    stars_pc,         \* "call" before the call, "returned" after it
    \* ---- the ranker, as main runs it (steps 4, 5, 6)
    ir_input,         \* the extracted records, in fetch order
    ir_list,          \* main's ir_list, reassigned by every step
    top_n,            \* the n handed to select_top_n
    ir_again,         \* the selection of the selection (steps 4 to 6 run on ir_list)
    rank_pc,          \* "extracted", "sorted", "deduped", "selected", "reselected"
    \* ---- one run of IR-JsonToX.py: __main__, main_with_retry, main
    args_valid,       \* the three strptime checks of __main__ pass
    dry_run,          \* --dry-run
    x_credentials,    \* the four X_* environment variables are all set
    gmail_password,   \* GMAIL_APP_PASSWORD is set
    max_retries,      \* main_with_retry's max_retries
    pc,               \* where the run stands
    attempt,          \* the loop variable of main_with_retry
    wp_posts,         \* main: what fetch_irs returned
    main_ir_list,     \* main: ir_list after steps 2 to 6
    tweet_text,       \* main: the generated text, by the number of its cards; -1 for none
    success,          \* what main returned to main_with_retry
    retry_result,     \* what main_with_retry returned
    exit_code,        \* the argument of sys.exit, -1 while running
    error_msg,        \* the attempt named in error_msg, 0 when unset
    notify_calls,     \* calls of send_error_notification
    mails_sent,       \* of these, the mails that SMTP accepted
    tweets_created,   \* posts that create_tweet created
    sleeps,           \* calls of time.sleep(10)
    stages,           \* the stages the current attempt has run, in order
    log,              \* per finished attempt: how it ended and what it ran
    \* ---- one run of 4_IR_ImageGenerator.py or 2_html_generator.py
    script,           \* the script that was started
    img_args_valid,   \* the three strptime checks of __main__ pass
    gemini_key,       \* GEMINI_API_KEY is set
    keep_html,        \* --keep-html
    img_pc,           \* where the script stands
    summary_list,     \* main: what ir_summarizer.main returned
    html_exists,      \* a file exists at the HTML path
    html_created,     \* generate_html of this run opened the file for writing
    main_result,      \* what main returned: "None", "html" or "png"
    img_stages,       \* the stages main has run, in order
    img_ended,        \* how main ended, "running" before
    img_exit_code,    \* the exit status of the process, -1 while running
    sum_faults,       \* per call of summarize_to_one_sentence: the service raised
    kw_faults,        \* per record of generate_html: the keyword call's service raised
    keywords,         \* what the calls of _generate_keyword_with_ai returned
    \* ---- generate_tweet, called on one list
    tw_variant,       \* "IR-JsonToX" or "IR-JsonToX-Image"
    tw_summaries,     \* len(short_summary) of every record of ir_list
    tweet,            \* the text returned, a character sequence
    tw_pc,            \* "call" before the call, "returned" after it
    \* ---- the span validation of summarize_to_one_sentence, on one answer
    span_content,     \* response.choices[0].message.content, stripped: a sequence of pieces
    span_returned,    \* the value returned
    span_pc,          \* "call" before the validation, "returned" after it
    \* ---- the three copies of the ranker, run on one list
    copy_input,       \* the extracted records, in fetch order
    copy_n,           \* the n handed to select_top_n
    copy_sorted,      \* per file: what sort_by_priority returned
    copy_deduped,     \* per file: what remove_duplicate_companies returned
    copy_selected,    \* per file: what select_top_n returned
    copy_pc           \* "extracted", "sorted", "deduped", "selected"

starsVars == <<importance_str, stars, stars_pc>>
rankVars  == <<ir_input, ir_list, top_n, ir_again, rank_pc>>
envVars   == <<args_valid, dry_run, x_credentials, gmail_password, max_retries>>
mainVars  == <<wp_posts, main_ir_list, tweet_text>>
runVars   == <<pc, attempt, success, retry_result, exit_code, error_msg, notify_calls,
               mails_sent, tweets_created, sleeps, stages, log>>
orchVars  == <<envVars, mainVars, runVars>>
imageVars == <<script, img_args_valid, gemini_key, keep_html, img_pc, summary_list,
               html_exists, html_created, main_result, img_stages, img_ended,
               img_exit_code, sum_faults, kw_faults, keywords>>
callVars  == <<sum_faults, kw_faults, keywords>>
tweetVars == <<tw_variant, tw_summaries, tweet, tw_pc>>
spanVars  == <<span_content, span_returned, span_pc>>
copyVars  == <<copy_input, copy_n, copy_sorted, copy_deduped, copy_selected, copy_pc>>
vars      == <<starsVars, rankVars, orchVars, imageVars, tweetVars, spanVars, copyVars>>

(***************************************************************************)
(* Bounds of the model.                                                    *)
(***************************************************************************)
MaxStrLen  == 3    \* longest importance string enumerated
MaxRecords == 3    \* longest fetched list enumerated
MaxCount   == 3    \* largest n handed to select_top_n
MaxPosts   == 2    \* longest list a fetch of the run returns
MaxRetriesArg == 3 \* largest max_retries a run is started with
MaxCards   == 2    \* longest list handed to generate_tweet
MaxPieces  == 3    \* longest answer of the generation service, in pieces

(***************************************************************************)
(* Characters.                                                             *)
(***************************************************************************)
\* the class [★☆â˜…] of the regular expression: five single characters
StarGlyphs == {"U+2605", "U+2606", "U+00E2", "U+02DC", "U+2026"}

\* \d, restricted to the ASCII digits
DigitChars == {"0", "1", "2", "3", "4", "5", "6", "7", "8", "9"}

\* int() of one digit character
DigitValue(c) ==
    CASE c = "0" -> 0 [] c = "1" -> 1 [] c = "2" -> 2 [] c = "3" -> 3
      [] c = "4" -> 4 [] c = "5" -> 5 [] c = "6" -> 6 [] c = "7" -> 7
      [] c = "8" -> 8 [] c = "9" -> 9

\* Python's None, for a meta field that is null
None == <<"None">>

\* "★4" and the mis-encoded "â˜…4" of the docstring, as character sequences
Str_Star4    == <<"U+2605", "4">>
Str_Mojibake == <<"U+00E2", "U+02DC", "U+2026", "4">>

(***************************************************************************)
(* get_importance_stars: re.search(r'[★☆â˜…](\d+)', s), then int(group 1). *)
(***************************************************************************)
\* int() of the digit run of s that starts at position i (greedy \d+),
\* with acc the value of the digits read so far
RECURSIVE DigitRun(_, _, _)
DigitRun(s, i, acc) ==
    IF i <= Len(s) /\ s[i] \in DigitChars
    THEN DigitRun(s, i + 1, acc * 10 + DigitValue(s[i]))
    ELSE acc

\* re.search: the leftmost position at which the pattern matches, 0 for no match
RECURSIVE re_search(_, _)
re_search(s, i) ==
    IF i + 1 > Len(s) THEN 0
    ELSE IF s[i] \in StarGlyphs /\ s[i + 1] \in DigitChars THEN i
    ELSE re_search(s, i + 1)

\* a slip a maintainer could make: \d instead of \d+ (one digit only)
get_importance_stars_one_digit(s) ==
    IF s = None \/ s = <<>> THEN 0
    ELSE LET m == re_search(s, 1)
         IN  IF m # 0 THEN DigitValue(s[m + 1]) ELSE 0

get_importance_stars(s) ==
    IF s = None \/ s = <<>> THEN 0
    ELSE LET m == re_search(s, 1)
         IN  IF m # 0 THEN DigitRun(s, m + 1, 0) ELSE 0

(***************************************************************************)
(* CATEGORY_PRIORITY and get_category_priority.                            *)
(***************************************************************************)
KnownCategories ==
    {"tender_offer", "m_and_a_alliance", "financial_summary", "business_update",
     "earnings_guidance", "dividend", "share_buyback", "capital_policy",
     "share_cancellation", "corporate_restructuring", "product_announcement",
     "executive_change", "sales_update", "esg_sustainability", "stock_option",
     "disclosure_update", "general_ir"}

CATEGORY_PRIORITY(ir_type) ==
    CASE ir_type = "tender_offer"            -> 1
      [] ir_type = "m_and_a_alliance"        -> 2
      [] ir_type = "financial_summary"       -> 3
      [] ir_type = "business_update"         -> 4
      [] ir_type = "earnings_guidance"       -> 5
      [] ir_type = "dividend"                -> 6
      [] ir_type = "share_buyback"           -> 7
      [] ir_type = "capital_policy"          -> 8
      [] ir_type = "share_cancellation"      -> 9
      [] ir_type = "corporate_restructuring" -> 10
      [] ir_type = "product_announcement"    -> 11
      [] ir_type = "executive_change"        -> 12
      [] ir_type = "sales_update"            -> 13
      [] ir_type = "esg_sustainability"      -> 14
      [] ir_type = "stock_option"            -> 15
      [] ir_type = "disclosure_update"       -> 16
      [] ir_type = "general_ir"              -> 17

\* the default of CATEGORY_PRIORITY.get(ir_type, 99)
DEFAULT_PRIORITY == 99

\* a slip a maintainer could make: dict.get's default left at 0
get_category_priority_default0(ir_type) ==
    IF ir_type \in KnownCategories THEN CATEGORY_PRIORITY(ir_type) ELSE 0

get_category_priority(ir_type) ==
    IF ir_type \in KnownCategories THEN CATEGORY_PRIORITY(ir_type)
    ELSE DEFAULT_PRIORITY

(***************************************************************************)
(* IRDataProcessor: sort_by_priority, remove_duplicate_companies,          *)
(* select_top_n.                                                           *)
(***************************************************************************)
\* the key of sorted(): (category priority, -importance)
SortKey(x) ==
    <<get_category_priority(x.ir_type), 0 - get_importance_stars(x.importance)>>

\* Python's < on two such tuples
KeyLess(k1, k2) == k1[1] < k2[1] \/ (k1[1] = k2[1] /\ k1[2] < k2[2])

\* x put into the sorted list srt behind every element whose key is not greater
\* (sorted() is stable), scanning from position i
RECURSIVE InsertStable(_, _, _)
InsertStable(srt, x, i) ==
    IF i > Len(srt) THEN Append(srt, x)
    ELSE IF KeyLess(SortKey(x), SortKey(srt[i]))
         THEN SubSeq(srt, 1, i - 1) \o <<x>> \o SubSeq(srt, i, Len(srt))
         ELSE InsertStable(srt, x, i + 1)

\* x put in front of the elements whose key is equal: a sort that is not stable
RECURSIVE InsertUnstable(_, _, _)
InsertUnstable(srt, x, i) ==
    IF i > Len(srt) THEN Append(srt, x)
    ELSE IF ~KeyLess(SortKey(srt[i]), SortKey(x))
         THEN SubSeq(srt, 1, i - 1) \o <<x>> \o SubSeq(srt, i, Len(srt))
         ELSE InsertUnstable(srt, x, i + 1)

RECURSIVE SortFrom(_, _, _)
SortFrom(lst, i, srt) ==
    IF i > Len(lst) THEN srt
    ELSE SortFrom(lst, i + 1, InsertStable(srt, lst[i], 1))

RECURSIVE SortFromUnstable(_, _, _)
SortFromUnstable(lst, i, srt) ==
    IF i > Len(lst) THEN srt
    ELSE SortFromUnstable(lst, i + 1, InsertUnstable(srt, lst[i], 1))

\* the importance key with its sign lost: ascending importance
RECURSIVE InsertAscending(_, _, _)
InsertAscending(srt, x, i) ==
    IF i > Len(srt) THEN Append(srt, x)
    ELSE IF KeyLess(<<SortKey(x)[1], 0 - SortKey(x)[2]>>,
                    <<SortKey(srt[i])[1], 0 - SortKey(srt[i])[2]>>)
         THEN SubSeq(srt, 1, i - 1) \o <<x>> \o SubSeq(srt, i, Len(srt))
         ELSE InsertAscending(srt, x, i + 1)

RECURSIVE SortFromAscending(_, _, _)
SortFromAscending(lst, i, srt) ==
    IF i > Len(lst) THEN srt
    ELSE SortFromAscending(lst, i + 1, InsertAscending(srt, lst[i], 1))

\* sort_by_priority with one of the two slips above
sort_by_priority_unstable(lst) == SortFromUnstable(lst, 1, <<>>)
sort_by_priority_ascending(lst) == SortFromAscending(lst, 1, <<>>)

sort_by_priority(lst) == SortFrom(lst, 1, <<>>)

\* the loop of remove_duplicate_companies, at position i
RECURSIVE DedupLoop(_, _, _, _)
DedupLoop(lst, i, seen_companies, result) ==
    IF i > Len(lst) THEN result
    ELSE LET stock_code == lst[i].stock_code
         IN  IF stock_code = ""
             THEN DedupLoop(lst, i + 1, seen_companies, result)
             ELSE IF stock_code \notin seen_companies
                  THEN DedupLoop(lst, i + 1, seen_companies \cup {stock_code},
                                 Append(result, lst[i]))
                  ELSE DedupLoop(lst, i + 1, seen_companies, result)

\* the loop without `if not stock_code: continue`: a record without a code is
\* handled like any other
RECURSIVE DedupLoopKeepsEmpty(_, _, _, _)
DedupLoopKeepsEmpty(lst, i, seen_companies, result) ==
    IF i > Len(lst) THEN result
    ELSE IF lst[i].stock_code \notin seen_companies
         THEN DedupLoopKeepsEmpty(lst, i + 1,
                                  seen_companies \cup {lst[i].stock_code},
                                  Append(result, lst[i]))
         ELSE DedupLoopKeepsEmpty(lst, i + 1, seen_companies, result)

remove_duplicate_companies_keeps_empty(lst) == DedupLoopKeepsEmpty(lst, 1, {}, <<>>)

\* the loop with seen_companies.add forgotten
RECURSIVE DedupLoopNoAdd(_, _, _, _)
DedupLoopNoAdd(lst, i, seen_companies, result) ==
    IF i > Len(lst) THEN result
    ELSE IF lst[i].stock_code = ""
         THEN DedupLoopNoAdd(lst, i + 1, seen_companies, result)
         ELSE DedupLoopNoAdd(lst, i + 1, seen_companies, Append(result, lst[i]))

remove_duplicate_companies_no_add(lst) == DedupLoopNoAdd(lst, 1, {}, <<>>)

remove_duplicate_companies(lst) == DedupLoop(lst, 1, {}, <<>>)

\* ir_list[:n + 1]: an off-by-one slice
select_top_n_off_by_one(lst, n) ==
    IF Len(lst) >= n THEN SubSeq(lst, 1, IF n + 1 <= Len(lst) THEN n + 1 ELSE Len(lst))
    ELSE lst

\* ir_list[:n] for n >= 0
select_top_n(lst, n) ==
    IF Len(lst) >= n THEN SubSeq(lst, 1, n) ELSE lst

\* main's steps 4 to 6 in one expression
Select(lst, n) ==
    select_top_n(remove_duplicate_companies(sort_by_priority(lst)), n)

(***************************************************************************)
(* Inputs enumerated.                                                      *)
(***************************************************************************)
\* the characters importance strings are built from: the five glyphs, some
\* digits, and one character that is neither
ImportanceAlphabet == StarGlyphs \cup {"0", "1", "4", "9"} \cup {"x"}

\* s is None, the mis-encoded "★4", or a string of at most MaxStrLen characters
IsImportanceInput(s) ==
    \/ s \in {None, Str_Mojibake}
    \/ \E m \in 0..MaxStrLen : s \in [1..m -> ImportanceAlphabet]

\* what extract_ir_info reads from one post's meta
StockCodes  == {"", "7203", "6758"}
IrTypes     == {"tender_offer", "dividend"}
Importances == {<<>>, Str_Star4}
MetaValues  == [stock_code : StockCodes, ir_type : IrTypes, importance : Importances]

\* the extracted list of k posts whose meta is f[1], ..., f[k]; id is the
\* post's id, here its position in the fetched order
Extracted(f, k) ==
    [i \in 1..k |-> [id |-> i, stock_code |-> f[i].stock_code,
                     ir_type |-> f[i].ir_type, importance |-> f[i].importance]]

\* two posts of different companies, over every category of the table, the
\* empty category and a category the table does not list
AllIrTypes == KnownCategories \cup {"", "unlisted_type"}
PriorityMetaValues ==
    [stock_code : {"7203"}, ir_type : AllIrTypes, importance : Importances]

(***************************************************************************)
(* Specifications of the pure parts.                                       *)
(***************************************************************************)
StarsIdle == importance_str = <<>> /\ stars = 0 /\ stars_pc = "idle"
RankIdle  == /\ ir_input = <<>> /\ ir_list = <<>> /\ top_n = 0
             /\ ir_again = <<>> /\ rank_pc = "idle"
OrchIdle  == /\ args_valid = TRUE /\ dry_run = FALSE /\ x_credentials = FALSE
             /\ gmail_password = FALSE /\ max_retries = 0
             /\ pc = "idle" /\ attempt = 0
             /\ wp_posts = <<>> /\ main_ir_list = <<>> /\ tweet_text = -1
             /\ success = "None" /\ retry_result = "None" /\ exit_code = -1
             /\ error_msg = 0 /\ notify_calls = 0 /\ mails_sent = 0
             /\ tweets_created = 0 /\ sleeps = 0 /\ stages = <<>> /\ log = <<>>
ImageIdle == /\ script = "none" /\ img_args_valid = TRUE /\ gemini_key = FALSE
             /\ keep_html = FALSE /\ img_pc = "idle" /\ summary_list = <<>>
             /\ html_exists = FALSE /\ html_created = FALSE
             /\ main_result = "None" /\ img_stages = <<>>
             /\ img_ended = "running" /\ img_exit_code = -1
             /\ sum_faults = <<>> /\ kw_faults = <<>> /\ keywords = <<>>
TweetIdle == /\ tw_variant = "none" /\ tw_summaries = <<>> /\ tweet = <<>>
             /\ tw_pc = "idle"
SpanIdle  == span_content = <<>> /\ span_returned = <<>> /\ span_pc = "idle"
CopyIdle  == /\ copy_input = <<>> /\ copy_n = 0 /\ copy_sorted = <<>>
             /\ copy_deduped = <<>> /\ copy_selected = <<>> /\ copy_pc = "idle"

\* ---- get_importance_stars on one value
InitStars ==
    /\ IsImportanceInput(importance_str)
    /\ stars = 0
    /\ stars_pc = "call"
    /\ RankIdle
    /\ OrchIdle
    /\ ImageIdle
    /\ TweetIdle
    /\ SpanIdle
    /\ CopyIdle

CallStars ==
    /\ stars_pc = "call"
    /\ stars' = get_importance_stars(importance_str)
    /\ stars_pc' = "returned"
    /\ UNCHANGED <<importance_str, rankVars, orchVars, imageVars, tweetVars, spanVars,
                   copyVars>>

NextStars == CallStars

SpecStars == InitStars /\ [][NextStars]_vars

\* ---- the ranker: main's steps 4, 5 and 6, then the same three steps again
RankStart ==
    /\ ir_list = ir_input
    /\ top_n = 0
    /\ ir_again = <<>>
    /\ rank_pc = "extracted"
    /\ StarsIdle
    /\ OrchIdle
    /\ ImageIdle
    /\ TweetIdle
    /\ SpanIdle
    /\ CopyIdle

\* every list of at most MaxRecords posts
InitRank ==
    /\ \E k \in 0..MaxRecords :
          \E f \in [1..k -> MetaValues] : ir_input = Extracted(f, k)
    /\ RankStart

SortStep ==
    /\ rank_pc = "extracted"
    /\ ir_list' = sort_by_priority(ir_list)
    /\ rank_pc' = "sorted"
    /\ UNCHANGED <<ir_input, top_n, ir_again, starsVars, orchVars, imageVars, tweetVars, spanVars,
                   copyVars>>

DedupStep ==
    /\ rank_pc = "sorted"
    /\ ir_list' = remove_duplicate_companies(ir_list)
    /\ rank_pc' = "deduped"
    /\ UNCHANGED <<ir_input, top_n, ir_again, starsVars, orchVars, imageVars, tweetVars, spanVars,
                   copyVars>>

TopNStep ==
    /\ rank_pc = "deduped"
    /\ \E n \in 0..MaxCount :
          /\ top_n' = n
          /\ ir_list' = select_top_n(ir_list, n)
    /\ rank_pc' = "selected"
    /\ UNCHANGED <<ir_input, ir_again, starsVars, orchVars, imageVars, tweetVars, spanVars,
                   copyVars>>

Reselect ==
    /\ rank_pc = "selected"
    /\ ir_again' = Select(ir_list, top_n)
    /\ rank_pc' = "reselected"
    /\ UNCHANGED <<ir_input, ir_list, top_n, starsVars, orchVars, imageVars, tweetVars, spanVars,
                   copyVars>>

NextRank == SortStep \/ DedupStep \/ TopNStep \/ Reselect

SpecRank == InitRank /\ [][NextRank]_vars

\* the ranker on two posts over every category
InitPriority ==
    /\ \E a, b \in PriorityMetaValues :
          ir_input = Extracted(<<a, [b EXCEPT !.stock_code = "6758"]>>, 2)
    /\ RankStart

SpecPriority == InitPriority /\ [][NextRank]_vars


(***************************************************************************)
(* The publish orchestrator: __main__, main_with_retry and main of         *)
(* IR-JsonToX.py (IR-JsonToX-Image.py has the same three, line for line,   *)
(* with an image path handed through to the post).                         *)
(***************************************************************************)
\* the default of main_with_retry's max_retries, which __main__ relies on
DEFAULT_MAX_RETRIES == 3

\* the n of select_top_n(ir_list, 5)
TOP_N == 5

\* keyword[:45] of _generate_keyword_with_ai
KEYWORD_MAX == 45

\* what the posts of a run's window carry: a company code or none
PostMetaValues ==
    [stock_code : {"", "7203"}, ir_type : {"dividend"}, importance : {Str_Star4}]

\* the attempt that ends here, added to the log
Logged(ended, ran) == Append(log, [ended |-> ended, stages |-> ran])

InitRun ==
    /\ args_valid \in BOOLEAN
    /\ dry_run \in BOOLEAN
    /\ x_credentials \in BOOLEAN
    /\ gmail_password \in BOOLEAN
    /\ max_retries \in 0..MaxRetriesArg
    /\ pc = "args"
    /\ attempt = 0
    /\ wp_posts = <<>> /\ main_ir_list = <<>> /\ tweet_text = -1
    /\ success = "None" /\ retry_result = "None" /\ exit_code = -1
    /\ error_msg = 0 /\ notify_calls = 0 /\ mails_sent = 0
    /\ tweets_created = 0 /\ sleeps = 0 /\ stages = <<>> /\ log = <<>>
    /\ StarsIdle
    /\ RankIdle
    /\ ImageIdle
    /\ TweetIdle
    /\ SpanIdle
    /\ CopyIdle

\* the run started whatever the arguments are
ValidateArgsSkipped ==
    /\ pc = "args"
    /\ pc' = "loop"
    /\ UNCHANGED <<envVars, mainVars, attempt, success, retry_result, exit_code,
                   error_msg, notify_calls, mails_sent, tweets_created, sleeps,
                   stages, log, starsVars, rankVars, imageVars, tweetVars, spanVars,
                   copyVars>>

\* __main__: the argument validation; sys.exit(1) on a ValueError
ValidateArgs ==
    /\ pc = "args"
    /\ IF args_valid
       THEN pc' = "loop" /\ UNCHANGED exit_code
       ELSE pc' = "exited" /\ exit_code' = 1
    /\ UNCHANGED <<envVars, mainVars, attempt, success, retry_result, error_msg,
                   notify_calls, mails_sent, tweets_created, sleeps, stages, log,
                   starsVars, rankVars, imageVars, tweetVars, spanVars,
                   copyVars>>

\* range(1, max_retries + 2): one attempt more than max_retries
LoopNextOneMore ==
    /\ pc = "loop"
    /\ IF attempt <= max_retries
       THEN /\ attempt' = attempt + 1
            /\ pc' = "fetch"
            /\ stages' = <<>>
            /\ success' = "None"
            /\ wp_posts' = <<>> /\ main_ir_list' = <<>> /\ tweet_text' = -1
            /\ UNCHANGED retry_result
       ELSE /\ retry_result' = "False"
            /\ pc' = "returned"
            /\ UNCHANGED <<attempt, stages, success, mainVars>>
    /\ UNCHANGED <<envVars, exit_code, error_msg, notify_calls, mails_sent,
                   tweets_created, sleeps, log, starsVars, rankVars, imageVars,
                   tweetVars, spanVars,
                   copyVars>>

\* the loop without the return False behind it: the run stays in the loop
\* when the attempts are used up
LoopNextWithoutReturn ==
    /\ pc = "loop"
    /\ attempt < max_retries
    /\ attempt' = attempt + 1
    /\ pc' = "fetch"
    /\ stages' = <<>>
    /\ success' = "None"
    /\ wp_posts' = <<>> /\ main_ir_list' = <<>> /\ tweet_text' = -1
    /\ UNCHANGED <<envVars, retry_result, exit_code, error_msg, notify_calls,
                   mails_sent, tweets_created, sleeps, log, starsVars, rankVars,
                   imageVars, tweetVars, spanVars,
                   copyVars>>

\* main_with_retry: for attempt in range(1, max_retries + 1), and the
\* return False behind the loop
LoopNext ==
    /\ pc = "loop"
    /\ IF attempt < max_retries
       THEN /\ attempt' = attempt + 1
            /\ pc' = "fetch"
            /\ stages' = <<>>
            /\ success' = "None"
            /\ wp_posts' = <<>> /\ main_ir_list' = <<>> /\ tweet_text' = -1
            /\ UNCHANGED retry_result
       ELSE /\ retry_result' = "False"
            /\ pc' = "returned"
            /\ UNCHANGED <<attempt, stages, success, mainVars>>
    /\ UNCHANGED <<envVars, exit_code, error_msg, notify_calls, mails_sent,
                   tweets_created, sleeps, log, starsVars, rankVars, imageVars, tweetVars, spanVars,
                   copyVars>>

\* main returns or raises: its locals are gone
MainLocalsGone ==
    wp_posts' = <<>> /\ main_ir_list' = <<>> /\ tweet_text' = -1

\* main, step 1: fetch_irs returns at least one post
FetchRecords ==
    /\ pc = "fetch"
    /\ \E k \in 1..MaxPosts :
          \E f \in [1..k -> PostMetaValues] : wp_posts' = Extracted(f, k)
    /\ stages' = Append(stages, "fetch")
    /\ pc' = "select"
    /\ UNCHANGED <<envVars, main_ir_list, tweet_text, attempt, success,
                   retry_result, exit_code, error_msg, notify_calls, mails_sent,
                   tweets_created, sleeps, log, starsVars, rankVars, imageVars, tweetVars, spanVars,
                   copyVars>>

\* main, step 1: fetch_irs returns [], from the service (ended = "empty") or
\* from its own except clauses after a Timeout or RequestException
\* (ended = "network_error"); main returns what_main_returns
FetchNothing(ended, what_main_returns) ==
    /\ pc = "fetch"
    /\ wp_posts' = <<>>
    /\ stages' = Append(stages, "fetch")
    /\ success' = what_main_returns
    /\ log' = Logged(ended, stages')
    /\ pc' = "main_returned"
    /\ UNCHANGED <<envVars, main_ir_list, tweet_text, attempt, retry_result,
                   exit_code, error_msg, notify_calls, mails_sent, tweets_created,
                   sleeps, starsVars, rankVars, imageVars, tweetVars, spanVars,
                   copyVars>>

\* len(wp_posts) == 0 taken for a failure: return False
FetchEmptyReturnsFalse == FetchNothing("empty", "False")

FetchEmpty == FetchNothing("empty", "True")

\* main with a handler around every stage that prints the exception and
\* goes on with the next stage
StageRaisesAndMainGoesOn(at, stage, ended) ==
    /\ pc = at
    /\ stages' = Append(stages, stage)
    /\ log' = Logged(ended, stages')
    /\ pc' = IF at = "fetch" THEN "select"
             ELSE IF at = "select" THEN "generate" ELSE "publish"
    /\ UNCHANGED <<envVars, mainVars, attempt, success, retry_result, exit_code,
                   error_msg, notify_calls, mails_sent, tweets_created, sleeps,
                   starsVars, rankVars, imageVars, tweetVars, spanVars,
                   copyVars>>

\* a stage of main raises an exception that main does not catch
StageRaises(at, stage, ended) ==
    /\ pc = at
    /\ stages' = Append(stages, stage)
    /\ log' = Logged(ended, stages')
    /\ pc' = "except"
    /\ MainLocalsGone
    /\ UNCHANGED <<envVars, attempt, success, retry_result, exit_code,
                   error_msg, notify_calls, mails_sent, tweets_created, sleeps,
                   starsVars, rankVars, imageVars, tweetVars, spanVars,
                   copyVars>>

\* fetch_irs raises something that is no RequestException (a body that is no
\* list, a ValueError of format_datetime_for_api)
FetchRaises == StageRaises("fetch", "fetch", "fetch_raised")

\* fetch_irs without its two except clauses: the Timeout or RequestException
\* leaves main
FetchNetworkErrorPropagates == StageRaises("fetch", "fetch", "network_error")

\* requests.get or raise_for_status raises a Timeout or another
\* RequestException: fetch_irs prints and returns []
FetchNetworkError == FetchNothing("network_error", "True")

\* main, steps 2 to 6: extract_ir_info, sort, dedup, top 5
SelectStage ==
    /\ pc = "select"
    /\ main_ir_list' = Select(wp_posts, TOP_N)
    /\ stages' = Append(stages, "select")
    /\ pc' = "generate"
    /\ UNCHANGED <<envVars, wp_posts, tweet_text, attempt, success, retry_result,
                   exit_code, error_msg, notify_calls, mails_sent, tweets_created,
                   sleeps, log, starsVars, rankVars, imageVars, tweetVars, spanVars,
                   copyVars>>

\* extract_ir_info raises (a post whose meta is no dict)
SelectRaises == StageRaises("select", "select", "select_raised")

\* main, step 7: generate_tweet
GenerateStage ==
    /\ pc = "generate"
    /\ tweet_text' = Len(main_ir_list)
    /\ stages' = Append(stages, "generate")
    /\ pc' = "publish"
    /\ UNCHANGED <<envVars, wp_posts, main_ir_list, attempt, success, retry_result,
                   exit_code, error_msg, notify_calls, mails_sent, tweets_created,
                   sleeps, log, starsVars, rankVars, imageVars, tweetVars, spanVars,
                   copyVars>>

\* generate_tweet raises (a post whose ir_type is null)
GenerateRaises == StageRaises("generate", "generate", "generate_raised")

\* main, step 8 without a post: dry_run, or credentials missing; return True
PublishSkipped ==
    /\ pc = "publish"
    /\ dry_run \/ ~x_credentials
    /\ success' = "True"
    /\ log' = Logged(IF dry_run THEN "dry_run" ELSE "no_credentials", stages)
    /\ pc' = "main_returned"
    /\ MainLocalsGone
    /\ UNCHANGED <<envVars, attempt, retry_result, exit_code, error_msg,
                   notify_calls, mails_sent, tweets_created, sleeps, stages,
                   starsVars, rankVars, imageVars, tweetVars, spanVars,
                   copyVars>>

\* main, step 8: TwitterPoster.post returns True (posted) or, after a
\* TweepyException, False
PublishCall(reached) ==
    /\ pc = "publish"
    /\ reached
    /\ stages' = Append(stages, "publish")
    /\ \E posted \in BOOLEAN :
          /\ success' = IF posted THEN "True" ELSE "False"
          /\ tweets_created' = IF posted THEN tweets_created + 1 ELSE tweets_created
          /\ log' = Logged(IF posted THEN "posted" ELSE "post_failed", stages')
    /\ pc' = "main_returned"
    /\ MainLocalsGone
    /\ UNCHANGED <<envVars, attempt, retry_result, exit_code, error_msg,
                   notify_calls, mails_sent, sleeps, starsVars, rankVars, imageVars, tweetVars, spanVars,
                   copyVars>>

\* the post made although --dry-run is given
PublishIgnoresDryRun == PublishCall(x_credentials)

\* the call of poster.post stands behind `if dry_run: return True` and behind
\* the check of the credentials
PublishReturns == PublishCall(~dry_run /\ x_credentials)

\* TwitterPoster.post raises something that is no TweepyException, before
\* create_tweet made the post or behind it (response.data['id'])
PublishRaises ==
    /\ pc = "publish"
    /\ ~dry_run /\ x_credentials
    /\ stages' = Append(stages, "publish")
    /\ \E created \in BOOLEAN :
          tweets_created' = IF created THEN tweets_created + 1 ELSE tweets_created
    /\ log' = Logged("publish_raised", stages')
    /\ pc' = "except"
    /\ MainLocalsGone
    /\ UNCHANGED <<envVars, attempt, success, retry_result, exit_code,
                   error_msg, notify_calls, mails_sent, sleeps, starsVars, rankVars, imageVars, tweetVars, spanVars,
                   copyVars>>

\* main_with_retry: if success: return True; otherwise the next iteration
MainReturned ==
    /\ pc = "main_returned"
    /\ IF success = "True"
       THEN retry_result' = "True" /\ pc' = "returned"
       ELSE pc' = "loop" /\ UNCHANGED retry_result
    /\ UNCHANGED <<envVars, mainVars, attempt, success, exit_code, error_msg,
                   notify_calls, mails_sent, tweets_created, sleeps, stages, log,
                   starsVars, rankVars, imageVars, tweetVars, spanVars,
                   copyVars>>

\* the except clause, with notify_now deciding whether this attempt notifies
\* and give_up whether it returns False
ExceptClause(notify_now, give_up) ==
    /\ pc = "except"
    /\ error_msg' = attempt
    /\ IF notify_now /\ gmail_password
       THEN /\ notify_calls' = notify_calls + 1
            \* send_error_notification catches every SMTP fault
            /\ \E smtp_ok \in BOOLEAN :
                  mails_sent' = IF smtp_ok THEN mails_sent + 1 ELSE mails_sent
       ELSE UNCHANGED <<notify_calls, mails_sent>>
    /\ IF give_up
       THEN retry_result' = "False" /\ pc' = "returned" /\ UNCHANGED sleeps
       ELSE sleeps' = sleeps + 1 /\ pc' = "loop" /\ UNCHANGED retry_result
    /\ UNCHANGED <<envVars, mainVars, attempt, success, exit_code, tweets_created,
                   stages, log, starsVars, rankVars, imageVars, tweetVars, spanVars,
                   copyVars>>

\* return False at the first exception: no retry
ExceptGivesUpAtOnce == ExceptClause(TRUE, TRUE)

\* the notification moved out of "if attempt == max_retries"
ExceptNotifiesEveryTime == ExceptClause(TRUE, attempt = max_retries)

\* send_error_notification without its try: an SMTP fault leaves the except
\* clause of main_with_retry and ends the process with a traceback
ExceptSmtpFaultEscapes ==
    /\ pc = "except"
    /\ error_msg' = attempt
    /\ IF attempt = max_retries
       THEN /\ UNCHANGED sleeps
            /\ IF gmail_password
               THEN /\ notify_calls' = notify_calls + 1
                    /\ \E smtp_ok \in BOOLEAN :
                          IF smtp_ok
                          THEN /\ mails_sent' = mails_sent + 1
                               /\ retry_result' = "False" /\ pc' = "returned"
                               /\ UNCHANGED exit_code
                          ELSE /\ exit_code' = 1 /\ pc' = "exited"
                               /\ UNCHANGED <<mails_sent, retry_result>>
               ELSE /\ retry_result' = "False" /\ pc' = "returned"
                    /\ UNCHANGED <<notify_calls, mails_sent, exit_code>>
       ELSE /\ sleeps' = sleeps + 1 /\ pc' = "loop"
            /\ UNCHANGED <<retry_result, notify_calls, mails_sent, exit_code>>
    /\ UNCHANGED <<envVars, mainVars, attempt, success, tweets_created, stages,
                   log, starsVars, rankVars, imageVars, tweetVars, spanVars,
                   copyVars>>

\* main_with_retry: except Exception as e
Except == ExceptClause(attempt = max_retries, attempt = max_retries)

\* __main__: sys.exit(0 if success else 1)
Exit ==
    /\ pc = "returned"
    /\ exit_code' = IF retry_result = "True" THEN 0 ELSE 1
    /\ pc' = "exited"
    /\ UNCHANGED <<envVars, mainVars, attempt, success, retry_result, error_msg,
                   notify_calls, mails_sent, tweets_created, sleeps, stages, log,
                   starsVars, rankVars, imageVars, tweetVars, spanVars,
                   copyVars>>

Next ==
    \/ ValidateArgs \/ LoopNext
    \/ FetchRecords \/ FetchEmpty \/ FetchNetworkError \/ FetchRaises
    \/ SelectRaises \/ SelectStage
    \/ GenerateStage \/ GenerateRaises
    \/ PublishSkipped \/ PublishReturns \/ PublishRaises
    \/ MainReturned \/ Except \/ Exit

Spec == InitRun /\ [][Next]_vars

\* the interpreter runs the next statement whenever there is one, and every
\* call of a collaborator returns or raises
SpecFair == Spec /\ WF_vars(Next)

(***************************************************************************)
(* IRSummarizer.summarize_to_one_sentence of 1_ir_summarizer.py.  A text   *)
(* is a sequence of pieces: a piece is a tag, written out, or a run of     *)
(* characters without a tag.                                               *)
(***************************************************************************)
Tag_OpenBold  == "<span class=\"bold\">"
Tag_OpenOther == "<span class=\"highlight\">"
Tag_OpenPlain == "<span>"
Tag_Close     == "</span>"
Piece_Words   == "words"

\* the pieces in which the substring '<span' occurs, once each
ContainsOpenSpan == {Tag_OpenBold, Tag_OpenOther, Tag_OpenPlain}

SpanPieces == ContainsOpenSpan \cup {Tag_Close, Piece_Words}

\* str.count('<span')
count_open_span(text) ==
    Cardinality({i \in 1..Len(text) : text[i] \in ContainsOpenSpan})

\* str.count('</span>')
count_close_span(text) ==
    Cardinality({i \in 1..Len(text) : text[i] = Tag_Close})

\* str.replace(old, ''), old being one of the tags
replace(text, old) == SelectSeq(text, LAMBDA piece : piece # old)

\* the answer of the generation service: an exception, or a completion
\* with its content
Response(content) == [fault |-> FALSE, content |-> content]
Fault             == [fault |-> TRUE, content |-> <<>>]

\* what a raise statement hands to the caller, where a model of a call
\* has to return a value
Raised == <<"Traceback">>

\* the try block without its except clause
summarize_to_one_sentence_unhandled(summary, response) ==
    IF response.fault
    THEN Raised
    ELSE LET summary_text == response.content
         IN  IF count_open_span(summary_text) # count_close_span(summary_text)
             THEN replace(replace(summary_text, Tag_OpenBold), Tag_Close)
             ELSE summary_text

\* the try block and its except clause: the stripped content, its span
\* tags removed when the two counts differ; the record's summary on any
\* exception
summarize_to_one_sentence(summary, response) ==
    IF response.fault
    THEN summary
    ELSE LET summary_text == response.content
         IN  IF count_open_span(summary_text) # count_close_span(summary_text)
             THEN replace(replace(summary_text, Tag_OpenBold), Tag_Close)
             ELSE summary_text

\* meta.get('jir_short_summary', ''): the default, or a text
ShortSummaries == {<<>>, <<Piece_Words>>}

\* the answers of the service to the prompt of summarize_to_one_sentence
SummaryResponses == {Fault, Response(<<Tag_OpenBold, Piece_Words, Tag_Close>>)}

\* HTMLGenerator._generate_keyword_with_ai: '' without a summary or a
\* client; the answer cut to KEYWORD_MAX characters; '' on any exception
_generate_keyword_with_ai(summary, openai_client, response) ==
    IF summary = <<>> \/ ~openai_client
    THEN <<>>
    ELSE IF response.fault
         THEN <<>>
         ELSE LET keyword == response.content
              IN  SubSeq(keyword, 1, IF Len(keyword) < KEYWORD_MAX
                                     THEN Len(keyword) ELSE KEYWORD_MAX)

\* the answers of the service to the prompt of _generate_keyword_with_ai: an
\* exception, a text within the limit, a text beyond it
KeywordResponses ==
    {Fault, Response([i \in 1..30 |-> "x"]), Response([i \in 1..50 |-> "x"])}

(***************************************************************************)
(* The image pipeline: __main__ and main of 4_IR_ImageGenerator.py, which  *)
(* runs ir_summarizer.main, HTMLGenerator.generate_html and                *)
(* ImageGenerator.generate_image; and __main__ and main of                 *)
(* 2_html_generator.py, which stops behind generate_html.                  *)
(***************************************************************************)
Scripts == {"4_IR_ImageGenerator", "2_html_generator"}

InitImage ==
    /\ script \in Scripts
    /\ img_args_valid \in BOOLEAN
    /\ gemini_key \in BOOLEAN
    \* 2_html_generator has no --keep-html: what it writes is its product
    /\ keep_html \in (IF script = "4_IR_ImageGenerator" THEN BOOLEAN ELSE {TRUE})
    \* a file of an earlier run may lie at the path
    /\ html_exists \in BOOLEAN
    /\ img_pc = "args"
    /\ summary_list = <<>>
    /\ html_created = FALSE
    /\ main_result = "None"
    /\ img_stages = <<>>
    /\ img_ended = "running"
    /\ img_exit_code = -1
    /\ sum_faults = <<>>
    /\ kw_faults = <<>>
    /\ keywords = <<>>
    /\ StarsIdle
    /\ RankIdle
    /\ OrchIdle
    /\ TweetIdle
    /\ SpanIdle
    /\ CopyIdle

\* __main__: the argument validation; sys.exit(1) on a ValueError
ImgValidateArgs ==
    /\ img_pc = "args"
    /\ IF img_args_valid
       THEN /\ img_pc' = IF script = "4_IR_ImageGenerator" THEN "key" ELSE "summarize"
            /\ UNCHANGED img_exit_code
       ELSE img_pc' = "exited" /\ img_exit_code' = 1
    /\ UNCHANGED <<script, img_args_valid, gemini_key, keep_html, summary_list,
                   html_exists, html_created, main_result, img_stages, img_ended,
                   callVars, starsVars, rankVars, orchVars, tweetVars, spanVars,
                   copyVars>>

\* __main__ of 4_IR_ImageGenerator: if not os.getenv('GEMINI_API_KEY'):
\* sys.exit(1)
ImgCheckKey ==
    /\ img_pc = "key"
    /\ IF gemini_key
       THEN img_pc' = "summarize" /\ UNCHANGED img_exit_code
       ELSE img_pc' = "exited" /\ img_exit_code' = 1
    /\ UNCHANGED <<script, img_args_valid, gemini_key, keep_html, summary_list,
                   html_exists, html_created, main_result, img_stages, img_ended,
                   callVars, starsVars, rankVars, orchVars, tweetVars, spanVars,
                   copyVars>>

\* the meta fields of the posts that ir_summarizer.main fetches
SummaryMetaValues ==
    [stock_code : StockCodes, ir_type : {"dividend"}, importance : {Str_Star4}]

\* main, step 1: ir_summarizer.main returns the top 5 of the window's posts,
\* each with the one_sentence_summary that summarize_to_one_sentence
\* returned for it, or [] for a window without posts; on [] main returns
\* None.  An exception that a call lets through ends the loop and main.
Summarize ==
    /\ img_pc = "summarize"
    /\ \E k \in 0..MaxPosts :
          \E f \in [1..k -> SummaryMetaValues] :
              LET selected == Select(Extracted(f, k), TOP_N)
                  n == Len(selected)
              IN  \E texts \in [1..n -> ShortSummaries] :
                  \E answers \in [1..n -> SummaryResponses] :
                      LET returned == [i \in 1..n |->
                              summarize_to_one_sentence(texts[i], answers[i])]
                          raising == {i \in 1..n : returned[i] = Raised}
                      IN  IF raising = {}
                          THEN /\ summary_list' = [i \in 1..n |->
                                      [id |-> selected[i].id,
                                       stock_code |-> selected[i].stock_code,
                                       ir_type |-> selected[i].ir_type,
                                       importance |-> selected[i].importance,
                                       short_summary |-> texts[i],
                                       one_sentence_summary |-> returned[i]]]
                               /\ sum_faults' = [i \in 1..n |-> answers[i].fault]
                               /\ IF n = 0
                                  THEN img_ended' = "empty" /\ img_pc' = "main_returned"
                                  ELSE img_pc' = "html" /\ UNCHANGED img_ended
                          ELSE LET first == CHOOSE i \in raising :
                                                \A j \in raising : i <= j
                               IN  /\ summary_list' = <<>>
                                   /\ sum_faults' = [i \in 1..first |-> answers[i].fault]
                                   /\ img_ended' = "summarize_raised"
                                   /\ img_pc' = "main_raised"
    /\ img_stages' = Append(img_stages, "summarize")
    /\ UNCHANGED <<script, img_args_valid, gemini_key, keep_html, html_exists,
                   html_created, main_result, img_exit_code, kw_faults, keywords,
                   starsVars, rankVars, orchVars, tweetVars, spanVars,
                   copyVars>>

\* an exception leaves main at stage `stage`; created tells whether
\* generate_html had opened the file for writing by then
MainRaises(at, stage, ended, created) ==
    /\ img_pc = at
    /\ img_stages' = Append(img_stages, stage)
    /\ img_ended' = ended
    /\ html_created' = (html_created \/ created)
    /\ html_exists' = (html_exists \/ created)
    /\ img_pc' = "main_raised"
    /\ UNCHANGED <<script, img_args_valid, gemini_key, keep_html, summary_list,
                   main_result, img_exit_code,
                   callVars, starsVars, rankVars, orchVars, tweetVars, spanVars,
                   copyVars>>

\* ir_summarizer.main raises (IRSummarizer() without OPENAI_API_KEY)
SummarizeRaises == MainRaises("summarize", "summarize", "summarize_raised", FALSE)

\* main, step 2: generate_html asks a keyword for every record, renders,
\* writes the file and returns its path; main of 2_html_generator returns
\* it.  HTMLGenerator() finds the OPENAI_API_KEY that IRSummarizer() found.
KeywordLoop ==
    \E answers \in [1..Len(summary_list) -> KeywordResponses] :
        /\ keywords' = [i \in 1..Len(summary_list) |->
               _generate_keyword_with_ai(summary_list[i].short_summary, TRUE,
                                         answers[i])]
        /\ kw_faults' = [i \in 1..Len(summary_list) |->
               summary_list[i].short_summary # <<>> /\ answers[i].fault]

GenerateHtml ==
    /\ img_pc = "html"
    /\ KeywordLoop
    /\ html_exists' = TRUE
    /\ html_created' = TRUE
    /\ img_stages' = Append(img_stages, "html")
    /\ IF script = "4_IR_ImageGenerator"
       THEN img_pc' = "capture" /\ UNCHANGED <<main_result, img_ended>>
       ELSE /\ main_result' = "html"
            /\ img_ended' = "html_written"
            /\ img_pc' = "main_returned"
    /\ UNCHANGED <<script, img_args_valid, gemini_key, keep_html, summary_list,
                   img_exit_code, sum_faults, starsVars, rankVars, orchVars,
                   tweetVars, spanVars, copyVars>>

\* HTMLGenerator() or generate_html raises: no template file (before the
\* loop over the records), a record without a key or a failing render
\* (behind the loop, before the file is opened), or a failing write (behind
\* open)
GenerateHtmlRaises ==
    /\ img_pc = "html"
    /\ \E looped, created \in BOOLEAN :
          /\ created => looped
          /\ IF looped THEN KeywordLoop ELSE UNCHANGED <<kw_faults, keywords>>
          /\ html_created' = (html_created \/ created)
          /\ html_exists' = (html_exists \/ created)
    /\ img_stages' = Append(img_stages, "html")
    /\ img_ended' = "html_raised"
    /\ img_pc' = "main_raised"
    /\ UNCHANGED <<script, img_args_valid, gemini_key, keep_html, summary_list,
                   main_result, img_exit_code, sum_faults, starsVars, rankVars,
                   orchVars, tweetVars, spanVars, copyVars>>

\* main, step 3: generate_image returns the image's path, or None when the
\* screenshot left no file; then os.remove(html_path) unless keep_html, and
\* return image_path
CaptureReturns ==
    /\ img_pc = "capture"
    /\ img_stages' = Append(img_stages, "capture")
    /\ \E shot \in BOOLEAN :
          /\ main_result' = IF shot THEN "png" ELSE "None"
          /\ img_ended' = IF shot THEN "captured" ELSE "no_image"
    /\ html_exists' = IF ~keep_html /\ html_exists THEN FALSE ELSE html_exists
    /\ img_pc' = "main_returned"
    /\ UNCHANGED <<script, img_args_valid, gemini_key, keep_html, summary_list,
                   html_created, img_exit_code,
                   callVars, starsVars, rankVars, orchVars, tweetVars, spanVars,
                   copyVars>>

\* generate_image raises: its except clause prints and re-raises, and main
\* has no handler, so the lines behind the call do not run
CaptureRaises == MainRaises("capture", "capture", "capture_raised", FALSE)

\* __main__: sys.exit(0 if image_path else 1), sys.exit(0 if html_path else 1)
ImgExit ==
    /\ img_pc = "main_returned"
    /\ img_exit_code' = IF main_result # "None" THEN 0 ELSE 1
    /\ img_pc' = "exited"
    /\ UNCHANGED <<script, img_args_valid, gemini_key, keep_html, summary_list,
                   html_exists, html_created, main_result, img_stages, img_ended,
                   callVars, starsVars, rankVars, orchVars, tweetVars, spanVars,
                   copyVars>>

\* __main__ has no handler either: the interpreter prints the traceback and
\* exits with status 1
ImgUncaught ==
    /\ img_pc = "main_raised"
    /\ img_exit_code' = 1
    /\ img_pc' = "exited"
    /\ UNCHANGED <<script, img_args_valid, gemini_key, keep_html, summary_list,
                   html_exists, html_created, main_result, img_stages, img_ended,
                   callVars, starsVars, rankVars, orchVars, tweetVars, spanVars,
                   copyVars>>

NextImage ==
    \/ ImgValidateArgs \/ ImgCheckKey
    \/ Summarize \/ SummarizeRaises
    \/ GenerateHtml \/ GenerateHtmlRaises
    \/ CaptureReturns \/ CaptureRaises
    \/ ImgExit \/ ImgUncaught

SpecImage == InitImage /\ [][NextImage]_vars

\* ---- one run of any of the scripts that take --date, --time-start and
\* --time-end: IR-JsonToX (IR-JsonToX-Image), 4_IR_ImageGenerator,
\* 2_html_generator
InitScripts == InitRun \/ InitImage

NextScripts == Next \/ NextImage

SpecScripts == InitScripts /\ [][NextScripts]_vars

(***************************************************************************)
(* TweetGenerator.generate_tweet of IR-JsonToX.py and IR-JsonToX-Image.py. *)
(* A text is the sequence of its characters (code points, as len counts    *)
(* them); the date is December 23, 2025, the company Toyota (7203), the    *)
(* category dividend, and a short_summary is a run of the letter x.        *)
(***************************************************************************)
\* TweetGenerator(): max_length=2000
MAX_LENGTH == 2000

\* tweet[:self.max_length - 80] of IR-JsonToX
TRUNCATE_SLACK_TEXT == 80

\* tweet[:self.max_length - 100] of IR-JsonToX-Image
TRUNCATE_SLACK_IMAGE == 100

NL == "\n"

\* a short_summary of n characters
Filler(n) == [i \in 1..n |-> "x"]

RECURSIVE Join(_)
\* "\n".join(lines)
Join(lines) ==
    IF Len(lines) = 0 THEN <<>>
    ELSE IF Len(lines) = 1 THEN lines[1]
    ELSE lines[1] \o <<NL>> \o Join(Tail(lines))

\* s[:n] for n >= 0
Take(s, n) == SubSeq(s, 1, IF n <= Len(s) THEN n ELSE Len(s))

\* IR-JsonToX: the two header lines
Text_Header1 ==
    <<"U+1F1EF", "U+1F1F5", " ", "J", "a", "p", "a", "n", "I", "R", " ",
      "H", "i", "g", "h", "l", "i", "g", "h", "t", "s">>

\* strftime('%B %d, %Y')
Text_Header2 ==
    <<"D", "e", "c", "e", "m", "b", "e", "r", " ", "2", "3", ",", " ", "2",
      "0", "2", "5">>

\* IR-JsonToX: the card's first line
Text_CardTitle ==
    <<"U+25AA", "U+FE0F", " ", "T", "o", "y", "o", "t", "a", " ", "(", "7",
      "2", "0", "3", ")">>

\* the indent of the card's second line
Text_CardIndent ==
    <<" ", " ", " ">>

\* _format_ir_type('dividend') in brackets
Text_CardTag ==
    <<" ", "[", "D", "i", "v", "i", "d", "e", "n", "d", "]">>

\* IR-JsonToX: the footer's first line
Text_FooterLink ==
    <<"U+1F4CA", " ", "j", "a", "p", "a", "n", "i", "r", ".", "j", "p",
      "/", "e", "n">>

\* the footer's last line, in both variants
Footer ==
    <<"#", "J", "a", "p", "a", "n", "S", "t", "o", "c", "k", "s", " ", "#",
      "I", "R">>

\* IR-JsonToX: what is appended to the cut text
Text_Suffix ==
    <<"\n", "\n", ".", ".", ".", "\n", "\n", "U+1F4CA", " ", "j", "a", "p",
      "a", "n", "i", "r", ".", "j", "p", "/", "e", "n", "\n", "#", "J",
      "a", "p", "a", "n", "S", "t", "o", "c", "k", "s", " ", "#", "I", "R">>

\* IR-JsonToX-Image: the header line, strftime('%b %d, %Y')
Image_Header ==
    <<"U+1F1EF", "U+1F1F5", " ", "J", "a", "p", "a", "n", " ", "I", "R",
      " ", "H", "i", "g", "h", "l", "i", "g", "h", "t", "s", " ", "-", " ",
      "D", "e", "c", " ", "2", "3", ",", " ", "2", "0", "2", "5">>

\* IR-JsonToX-Image: the card's first line
Image_CardTitle ==
    <<"U+2705", " ", "T", "o", "y", "o", "t", "a", " ", "(", "7", "2", "0",
      "3", ")", " ", "-", " ", "D", "i", "v", "i", "d", "e", "n", "d">>

\* IR-JsonToX-Image: the footer's first line
Image_FooterLink ==
    <<"U+1F4CA", " ", "F", "u", "l", "l", " ", "a", "n", "a", "l", "y",
      "s", "i", "s", ":", " ", "j", "a", "p", "a", "n", "i", "r", ".", "j",
      "p", "/", "e", "n">>

\* IR-JsonToX-Image: what is appended to the cut text
Image_Suffix ==
    <<"\n", "\n", ".", ".", ".", "\n", "\n", "U+1F4CA", " ", "j", "a", "p",
      "a", "n", "i", "r", ".", "j", "p", "/", "e", "n", "\n", "\n", "#",
      "J", "a", "p", "a", "n", "S", "t", "o", "c", "k", "s", " ", "#", "I",
      "R">>

RECURSIVE Text_CardLines(_)
\* IR-JsonToX: the three lines of every record, in list order
Text_CardLines(summaries) ==
    IF summaries = <<>> THEN <<>>
    ELSE <<Text_CardTitle,
           Text_CardIndent \o Filler(Head(summaries)) \o Text_CardTag,
           <<>>>> \o Text_CardLines(Tail(summaries))

\* IR-JsonToX: tweet = "\n".join(lines)
Text_Assemble(summaries) ==
    Join(<<Text_Header1, Text_Header2, <<>>>> \o Text_CardLines(summaries)
         \o <<Text_FooterLink, Footer>>)

RECURSIVE Image_CardLines(_)
\* IR-JsonToX-Image: the four lines of every record, in list order
Image_CardLines(summaries) ==
    IF summaries = <<>> THEN <<>>
    ELSE <<Image_CardTitle, <<>>, Filler(Head(summaries)), <<>>>>
         \o Image_CardLines(Tail(summaries))

\* IR-JsonToX-Image: tweet = "\n".join(lines)
Image_Assemble(summaries) ==
    Join(<<Image_Header, <<>>>> \o Image_CardLines(summaries)
         \o <<Image_FooterLink, <<>>, Footer>>)

\* the cut that keeps max_length characters and appends the suffix to them
TruncateWithoutSlack(text, slack, suffix) ==
    IF Len(text) > MAX_LENGTH THEN Take(text, MAX_LENGTH) \o suffix ELSE text

\* if len(tweet) > self.max_length: tweet = tweet[:max_length - slack] + suffix
Truncate(text, slack, suffix) ==
    IF Len(text) > MAX_LENGTH
    THEN Take(text, MAX_LENGTH - slack) \o suffix
    ELSE text

Variants == {"IR-JsonToX", "IR-JsonToX-Image"}

\* the joined lines, before the length check
Assemble(variant, summaries) ==
    IF variant = "IR-JsonToX" THEN Text_Assemble(summaries)
    ELSE Image_Assemble(summaries)

\* generate_tweet(ir_list, date_str) of the variant
generate_tweet(variant, summaries) ==
    IF variant = "IR-JsonToX"
    THEN Truncate(Text_Assemble(summaries), TRUNCATE_SLACK_TEXT, Text_Suffix)
    ELSE Truncate(Image_Assemble(summaries), TRUNCATE_SLACK_IMAGE, Image_Suffix)

\* the lengths of short_summary enumerated: with one record the joined text
\* of IR-JsonToX-Image has 2000 characters for 1883 and that of IR-JsonToX
\* for 1894
SummaryLengths == {0, 900, 1883, 1884, 1894, 1895, 2500}

InitTweet ==
    /\ tw_variant \in Variants
    /\ \E k \in 0..MaxCards : tw_summaries \in [1..k -> SummaryLengths]
    /\ tweet = <<>>
    /\ tw_pc = "call"
    /\ StarsIdle
    /\ RankIdle
    /\ OrchIdle
    /\ ImageIdle
    /\ SpanIdle
    /\ CopyIdle

CallGenerateTweet ==
    /\ tw_pc = "call"
    /\ tweet' = generate_tweet(tw_variant, tw_summaries)
    /\ tw_pc' = "returned"
    /\ UNCHANGED <<tw_variant, tw_summaries, starsVars, rankVars, orchVars,
                   imageVars, spanVars, copyVars>>

NextTweet == CallGenerateTweet

SpecTweet == InitTweet /\ [][NextTweet]_vars

(***************************************************************************)
(* Helpers of the properties.                                              *)
(***************************************************************************)
Min(a, b) == IF a <= b THEN a ELSE b

\* the non-empty entity keys of a list
DistinctKeys(lst) == {lst[i].stock_code : i \in 1..Len(lst)} \ {""}

Rank(x)  == get_category_priority(x.ir_type)
Score(x) == get_importance_stars(x.importance)

\* non-decreasing rank, and non-increasing score within equal rank
Ordered(lst) ==
    \A i, j \in 1..Len(lst) :
        i < j => /\ Rank(lst[i]) <= Rank(lst[j])
                 /\ (Rank(lst[i]) = Rank(lst[j]) => Score(lst[i]) >= Score(lst[j]))

\* the position of record x in lst (ids are unique), 0 when it is not there
PositionIn(lst, x) ==
    IF \E i \in 1..Len(lst) : lst[i] = x
    THEN CHOOSE i \in 1..Len(lst) : lst[i] = x
    ELSE 0

\* sub holds records of lst only, in the order lst has them
KeepsOrderOf(sub, lst) ==
    /\ \A i \in 1..Len(sub) : PositionIn(lst, sub[i]) # 0
    /\ \A i, j \in 1..Len(sub) :
          i < j => PositionIn(lst, sub[i]) < PositionIn(lst, sub[j])

RECURSIVE Pow10(_)
Pow10(k) == IF k = 0 THEN 1 ELSE 10 * Pow10(k - 1)

\* the last position of the digit run of s that starts at position i
RunEnd(s, i) ==
    CHOOSE j \in i..Len(s) :
        /\ \A k \in i..j : s[k] \in DigitChars
        /\ (j = Len(s) \/ s[j + 1] \notin DigitChars)

RECURSIVE DecimalValue(_, _, _)
\* the number written by the digits s[i..j]
DecimalValue(s, i, j) ==
    IF i > j THEN 0
    ELSE DigitValue(s[i]) * Pow10(j - i) + DecimalValue(s, i + 1, j)

\* a glyph at position i with a digit right behind it
GlyphThenDigit(s, i) ==
    i + 1 <= Len(s) /\ s[i] \in StarGlyphs /\ s[i + 1] \in DigitChars

\* the number written right behind the glyph at position i
NumberBehind(s, i) == DecimalValue(s, i + 1, RunEnd(s, i + 1))

IsText(s) == s # None

(***************************************************************************)
(* Properties of the ranker.                                               *)
(***************************************************************************)
\* C1: the selection is exactly the first min(maxCount, |D|) records of the
\* deduplicated sorted sequence D; its length is at most maxCount, at most the
\* input's length, and equals min(maxCount, number of distinct non-empty
\* entity keys of the input).
C1_SelectionIsPrefixOfDedup ==
    rank_pc = "selected" =>
        LET D == remove_duplicate_companies(sort_by_priority(ir_input))
        IN  /\ ir_list = SubSeq(D, 1, Min(top_n, Len(D)))
            /\ Len(ir_list) <= top_n
            /\ Len(ir_list) <= Len(ir_input)
            /\ Len(ir_list) = Min(top_n, Cardinality(DistinctKeys(ir_input)))

\* a selection that truncation really cut: more companies than n, n positive
C1_Witness ==
    /\ rank_pc = "selected"
    /\ top_n = 1
    /\ Len(ir_input) = 3
    /\ Cardinality(DistinctKeys(ir_input)) > top_n
    /\ Len(ir_list) = 1

\* C2: the output is ordered by non-decreasing priority rank and, within equal
\* rank, by non-increasing importance score; dedup and truncation keep the
\* surviving records in the order of the sorted sequence.
C2_SelectionOrdered ==
    /\ rank_pc \in {"sorted", "deduped", "selected"} => Ordered(ir_list)
    /\ rank_pc \in {"deduped", "selected"} =>
           KeepsOrderOf(ir_list, sort_by_priority(ir_input))

\* two records of equal rank that the sort had to exchange, both selected
C2_Witness ==
    /\ rank_pc = "selected"
    /\ Len(ir_list) >= 2
    /\ \E i, j \in 1..Len(ir_list) :
          /\ i < j
          /\ Rank(ir_list[i]) = Rank(ir_list[j])
          /\ Score(ir_list[i]) > Score(ir_list[j])
          /\ ir_list[i].id > ir_list[j].id

\* C3: no two records of the output have the same non-empty entity key.
C3_NoDuplicateCompany ==
    rank_pc \in {"deduped", "selected"} =>
        \A i, j \in 1..Len(ir_list) :
            (i # j /\ ir_list[i].stock_code # "")
                => ir_list[i].stock_code # ir_list[j].stock_code

\* an input with two records of one company, of which the output keeps one
C3_Witness ==
    /\ rank_pc = "selected"
    /\ \E i, j \in 1..Len(ir_input) :
          /\ i # j
          /\ ir_input[i].stock_code = "7203"
          /\ ir_input[j].stock_code = "7203"
    /\ \E i \in 1..Len(ir_list) : ir_list[i].stock_code = "7203"
    /\ Len(ir_list) >= 2

\* C4: sort, dedup and top-N applied to the selection, with the same n, return
\* the selection unchanged.
C4_SelectionIdempotent ==
    rank_pc = "reselected" => ir_again = ir_list

\* a selection that differs from its input and holds records of equal key
C4_Witness ==
    /\ rank_pc = "reselected"
    /\ Len(ir_list) >= 2
    /\ ir_list # ir_input
    /\ \E i, j \in 1..Len(ir_list) :
          i # j /\ SortKey(ir_list[i]) = SortKey(ir_list[j])

(***************************************************************************)
(* Properties of get_importance_stars.                                     *)
(***************************************************************************)
\* C5: for every importance value, get_importance_stars returns an integer in
\* 0..9, also when the glyph is followed by more than one digit.
C5_StarsWithin0To9 ==
    stars_pc = "returned" => stars \in 0..9

\* C6, as claimed: the result is the number right behind the FIRST accepted
\* glyph of the string, and 0 when there is no glyph or that glyph has no digit
\* right behind it.
C6_NumberBehindFirstGlyph ==
    stars_pc = "returned" =>
        LET s == importance_str
            glyphs == IF IsText(s) THEN {i \in 1..Len(s) : s[i] \in StarGlyphs}
                      ELSE {}
        IN  IF glyphs = {} THEN stars = 0
            ELSE LET first == CHOOSE i \in glyphs : \A k \in glyphs : i <= k
                 IN  stars = IF GlyphThenDigit(s, first)
                             THEN NumberBehind(s, first) ELSE 0

\* C6, amended: the result is the number right behind the leftmost accepted
\* glyph that has a digit right behind it, and 0 when the value is empty,
\* absent or holds no such glyph.
C6_NumberBehindLeftmostMatch ==
    stars_pc = "returned" =>
        LET s == importance_str
            hits == IF IsText(s) THEN {i \in 1..Len(s) : GlyphThenDigit(s, i)}
                    ELSE {}
        IN  IF hits = {} THEN stars = 0
            ELSE LET m == CHOOSE i \in hits : \A k \in hits : i <= k
                 IN  stars = NumberBehind(s, m)

\* a string whose first glyph has no digit behind it, and a later one has
C6_Witness ==
    /\ stars_pc = "returned"
    /\ IsText(importance_str)
    /\ Len(importance_str) >= 3
    /\ importance_str[1] \in StarGlyphs
    /\ ~GlyphThenDigit(importance_str, 1)
    /\ stars > 0

(***************************************************************************)
(* Properties of get_category_priority.                                    *)
(***************************************************************************)
\* C7: get_category_priority returns the table value for each of the 17 known
\* categories and exactly 99 for every other category, the empty one included;
\* 99 is greater than every table value, so the sort never puts a record of an
\* unknown category before a record of a known one.
C7_UnknownCategoryLast ==
    /\ Cardinality(KnownCategories) = 17
    /\ \A i \in 1..Len(ir_input) :
          LET c == ir_input[i].ir_type
          IN  IF c \in KnownCategories
              THEN /\ get_category_priority(c) = CATEGORY_PRIORITY(c)
                   /\ get_category_priority(c) \in 1..17
              ELSE get_category_priority(c) = 99
    /\ rank_pc \in {"sorted", "deduped", "selected"} =>
          \A i, j \in 1..Len(ir_list) :
              (i < j /\ ir_list[j].ir_type \in KnownCategories)
                  => ir_list[i].ir_type \in KnownCategories

\* an unknown category fetched first and sorted behind a known one
C7_Witness ==
    /\ rank_pc = "sorted"
    /\ Len(ir_input) = 2
    /\ ir_input[1].ir_type = ""
    /\ ir_input[2].ir_type = "general_ir"
    /\ ir_list[1] = ir_input[2]
    /\ ir_list[2] = ir_input[1]

(***************************************************************************)
(* Properties of the orchestrator.                                         *)
(***************************************************************************)
Terminated == pc \in {"returned", "exited"}

\* the attempts in which the fetch stage raised a fault
FetchFaulted(i) == i \in 1..Len(log) /\ log[i].ended = "fetch_raised"

\* an attempt that ran to its end without a fault: a post, or the post skipped
\* (dry run, credentials missing)
RanThrough(i) ==
    i \in 1..Len(log) /\ log[i].ended \in {"posted", "dry_run", "no_credentials"}

\* C8: with max_retries = 3, when the fetch stage faults on attempts 1 and 2
\* and the third attempt succeeds, main_with_retry returns success on the third
\* attempt and no notification is sent; a fetch fault before the third attempt
\* never ends the run.
C8_SucceedsOnThirdAttempt ==
    max_retries = DEFAULT_MAX_RETRIES =>
        /\ (Terminated /\ FetchFaulted(Len(log))) => Len(log) = 3
        /\ (FetchFaulted(1) /\ FetchFaulted(2)) =>
              /\ notify_calls = 0 \/ Len(log) = 3
              /\ Terminated => Len(log) = 3
              /\ (Terminated /\ RanThrough(3)) =>
                     /\ retry_result = "True"
                     /\ attempt = 3
                     /\ sleeps = 2
                     /\ notify_calls = 0
                     /\ pc = "exited" => exit_code = 0

\* two fetch faults, then a third attempt that posted
C8_Witness ==
    /\ pc = "exited"
    /\ max_retries = DEFAULT_MAX_RETRIES
    /\ Len(log) = 3
    /\ FetchFaulted(1) /\ FetchFaulted(2)
    /\ log[3].ended = "posted"
    /\ retry_result = "True"

\* the run made exactly three attempts and the fetch stage faulted in each
AllThreeFetchesFaulted ==
    /\ max_retries = DEFAULT_MAX_RETRIES
    /\ Len(log) = 3
    /\ \A i \in 1..3 : FetchFaulted(i)

C10_EmptyWindowSkips ==
    \A i \in 1..Len(log) :
        log[i].ended \in {"empty", "network_error"} =>
            /\ i = Len(log)
            /\ log[i].stages = <<"fetch">>
            /\ pc \in {"main_returned", "returned", "exited"}
            /\ notify_calls = 0
            /\ Terminated => retry_result = "True"
            /\ pc = "exited" => exit_code = 0

\* a run whose first fetch returned nothing, exited with code 0
C10_Witness ==
    /\ pc = "exited"
    /\ Len(log) = 1
    /\ log[1].ended = "empty"
    /\ exit_code = 0
    /\ max_retries = DEFAULT_MAX_RETRIES

\* an attempt that ended in a success of main: a post, a skipped post, or an
\* empty window
AttemptSucceeded(i) ==
    i \in 1..Len(log) /\ log[i].ended \in
        {"posted", "dry_run", "no_credentials", "empty", "network_error"}

\* the run is over and made all max_retries attempts, none with a success
Exhausted ==
    /\ Terminated
    /\ max_retries >= 1
    /\ Len(log) = max_retries
    /\ \A i \in 1..Len(log) : ~AttemptSucceeded(i)

\* C11, as claimed (with GMAIL_APP_PASSWORD set): whenever a run exhausts all
\* max_retries attempts without a success, whatever failure ended each attempt
\* (a publish call that reports failure included), the run ends Failed and the
\* notification collaborator is called, with the last attempt's error message.
C11_ExhaustedRunNotifies ==
    (Exhausted /\ gmail_password) =>
        /\ retry_result = "False"
        /\ notify_calls = 1
        /\ error_msg = max_retries

(***************************************************************************)
(* Properties of the image pipeline.                                       *)
(***************************************************************************)
\* main of the script has ended, by a return or by an exception
MainEnded == img_pc \in {"main_returned", "main_raised", "exited"} /\ img_ended # "running"

\* C12, as claimed: in main of 4_IR_ImageGenerator, whenever the temporary
\* HTML document has been created and keep_html is false, the document no
\* longer exists when main ends, whether generate_image returned an image,
\* returned nothing, or raised.
C12_TempHtmlRemoved ==
    (script = "4_IR_ImageGenerator" /\ MainEnded /\ html_created /\ ~keep_html)
        => ~html_exists

(***************************************************************************)
(* Properties of generate_tweet.                                           *)
(***************************************************************************)
\* s ends with t
EndsWith(s, t) == Len(s) >= Len(t) /\ SubSeq(s, Len(s) - Len(t) + 1, Len(s)) = t

\* a line "..." stands somewhere in front of the last Len(t) characters of s
EllipsisLineBefore(s, t) ==
    \E k \in 1..(Len(s) - Len(t) - 4) :
        SubSeq(s, k, k + 4) = <<NL, ".", ".", ".", NL>>

\* C13: for every assembled text longer than max_length = 2000, generate_tweet
\* returns a text of at most 2000 characters that ends with the footer
\* "#JapanStocks #IR", with an ellipsis line in front of it; in both variants.
C13_CutTextFitsAndKeepsFooter ==
    (tw_pc = "returned" /\ Len(Assemble(tw_variant, tw_summaries)) > MAX_LENGTH) =>
        /\ Len(tweet) <= MAX_LENGTH
        /\ EndsWith(tweet, Footer)
        /\ EllipsisLineBefore(tweet, Footer)

\* a joined text of 2001 characters, one more than the cap, that was cut
C13_Witness ==
    /\ tw_pc = "returned"
    /\ Len(Assemble(tw_variant, tw_summaries)) = MAX_LENGTH + 1
    /\ Len(tweet) < MAX_LENGTH
    /\ EndsWith(tweet, Footer)

(***************************************************************************)
(* Properties of the scripts' exit status.                                 *)
(***************************************************************************)
\* the run of IR-JsonToX ended with a success of its last attempt
RunSucceeded == Len(log) > 0 /\ AttemptSucceeded(Len(log))

\* C14, as claimed: every adapter script exits with code 0 when its run
\* succeeds or when the window holds zero records, and with code 1 on
\* malformed arguments or a failure of the pipeline.
C14_ExitCodeContract ==
    /\ pc = "exited" =>
           exit_code = (IF args_valid /\ RunSucceeded THEN 0 ELSE 1)
    /\ img_pc = "exited" =>
           img_exit_code =
               (IF img_ended \in {"empty", "captured", "html_written"} THEN 0 ELSE 1)

\* C15: if the date is not valid YYYYMMDD or a time is not valid HH:MM, the
\* script exits with code 1 before any stage runs: no attempt is started, no
\* fetch, generation, render, capture, publish or notification call is made.
C15_InvalidArgsStopBeforeStages ==
    /\ (pc # "idle" /\ ~args_valid) =>
           /\ pc \in {"args", "exited"}
           /\ pc = "exited" => exit_code = 1
           /\ attempt = 0 /\ stages = <<>> /\ log = <<>>
           /\ wp_posts = <<>> /\ tweet_text = -1
           /\ tweets_created = 0 /\ notify_calls = 0 /\ sleeps = 0
    /\ (img_pc # "idle" /\ ~img_args_valid) =>
           /\ img_pc \in {"args", "exited"}
           /\ img_pc = "exited" => img_exit_code = 1
           /\ img_stages = <<>> /\ summary_list = <<>>
           /\ ~html_created /\ main_result = "None"

\* IR-JsonToX started with a malformed date, exited with code 1
C15_Witness ==
    /\ pc = "exited"
    /\ ~args_valid
    /\ exit_code = 1
    /\ attempt = 0

(***************************************************************************)
(* Properties of the retry loop.                                           *)
(***************************************************************************)
\* the stages that attempt i ran
StagesOf(i) == {log[i].stages[k] : k \in 1..Len(log[i].stages)}

\* attempt i ended with an exception
AttemptRaised(i) ==
    i \in 1..Len(log) /\ log[i].ended \in
        {"fetch_raised", "select_raised", "generate_raised", "publish_raised"}

\* C16: when dry_run is set, the publish collaborator is never invoked in any
\* attempt of the run, and an attempt whose earlier stages did not fault
\* reports success.
C16_DryRunNeverPublishes ==
    dry_run =>
        /\ tweets_created = 0
        /\ \A k \in 1..Len(stages) : stages[k] # "publish"
        /\ \A i \in 1..Len(log) :
              /\ "publish" \notin StagesOf(i)
              /\ ~AttemptRaised(i) =>
                     /\ AttemptSucceeded(i)
                     /\ i = Len(log)
                     /\ pc = "main_returned" => success = "True"
                     /\ Terminated => retry_result = "True"

\* a dry run whose first attempt generated the text and reported success
C16_Witness ==
    /\ dry_run
    /\ x_credentials
    /\ pc = "exited"
    /\ Len(log) = 1
    /\ log[1].ended = "dry_run"
    /\ log[1].stages = <<"fetch", "select", "generate">>
    /\ exit_code = 0

\* C17: every run of main_with_retry terminates: for every pattern of stage
\* outcomes and every max_retries >= 0, a run that has entered the loop
\* reaches a result (True or False) after at most max_retries attempts.
C17_RunTerminates ==
    /\ [](attempt <= max_retries /\ Len(log) <= max_retries)
    /\ (pc = "loop") ~> (pc = "returned" /\ retry_result \in {"True", "False"})

\* a run that used all its three attempts (a fault, a post reported failed, a
\* fault) and returned False
C17_Witness ==
    /\ pc = "returned"
    /\ max_retries = DEFAULT_MAX_RETRIES
    /\ Len(log) = 3
    /\ log[1].ended = "fetch_raised"
    /\ log[2].ended = "post_failed"
    /\ log[3].ended = "publish_raised"
    /\ retry_result = "False"

\* the stages of main, in the order main runs them
PipelineOrder == <<"fetch", "select", "generate", "publish">>

\* s is a non-empty start of the pipeline
StartsAtFetch(s) ==
    /\ Len(s) \in 1..Len(PipelineOrder)
    /\ s = SubSeq(PipelineOrder, 1, Len(s))

\* C18: every attempt of a run executes the pipeline from the fetch stage on
\* (never resuming at the stage that failed); the number of attempts started
\* never exceeds max_retries (default 3); no attempt is started after an
\* attempt that succeeded.
C18_AttemptsRestartAndAreBounded ==
    /\ [](/\ attempt <= max_retries
          /\ Len(log) \in {attempt - 1, attempt}
          /\ stages # <<>> => StartsAtFetch(stages)
          /\ \A i \in 1..Len(log) :
                /\ StartsAtFetch(log[i].stages)
                /\ AttemptSucceeded(i) =>
                       /\ i = Len(log) /\ attempt = i
                       /\ pc \in {"main_returned", "returned", "exited"})
    /\ [][attempt' # attempt =>
              /\ attempt' = attempt + 1
              /\ pc' = "fetch" /\ stages' = <<>>
              /\ wp_posts' = <<>> /\ main_ir_list' = <<>> /\ tweet_text' = -1
              /\ success # "True"]_vars

\* an attempt that failed in the generate stage, followed by an attempt that
\* ran all four stages from the fetch on
C18_Witness ==
    /\ Len(log) = 2
    /\ log[1].ended = "generate_raised"
    /\ log[2].stages = PipelineOrder
    /\ log[2].ended = "posted"
    /\ pc = "returned"

\* C19, as claimed: between every two consecutive attempts of a run the
\* orchestrator waits the fixed delay of 10 seconds once, whatever failure
\* ended the earlier attempt (a raised fault or a publish step that reported
\* failure); no delay follows the final attempt.
C19_DelayBetweenAttempts ==
    (attempt >= 1 /\ pc # "loop") => sleeps = attempt - 1

\* C20: a fault inside the notification collaborator (SMTP connect, login or
\* send) never escalates: main_with_retry still returns False normally, no
\* exception leaves it, no further attempt and no second notification is made.
C20_NotificationFaultContained ==
    notify_calls > mails_sent =>
        /\ notify_calls = 1
        /\ mails_sent = 0
        /\ pc \in {"returned", "exited"}
        /\ retry_result = "False"
        /\ attempt = max_retries
        /\ Len(log) = max_retries
        /\ pc = "exited" => exit_code = 1

\* a run whose last attempt raised, whose notification mail SMTP refused, and
\* which exited with code 1
C20_Witness ==
    /\ pc = "exited"
    /\ gmail_password
    /\ notify_calls = 1
    /\ mails_sent = 0
    /\ retry_result = "False"
    /\ exit_code = 1

(***************************************************************************)
(* Further properties of the ranker.                                       *)
(***************************************************************************)
\* the positions of lst whose record has a non-empty key that no earlier
\* record of lst has
FirstOccurrences(lst) ==
    {i \in 1..Len(lst) :
        /\ lst[i].stock_code # ""
        /\ \A j \in 1..(i - 1) : lst[j].stock_code # lst[i].stock_code}

\* sub is exactly the subsequence of lst at the positions P (ids are unique)
IsSubsequenceAt(sub, lst, P) ==
    /\ Len(sub) = Cardinality(P)
    /\ \A i \in P : PositionIn(sub, lst[i]) # 0
    /\ KeepsOrderOf(sub, lst)

\* C21: remove_duplicate_companies applied to the sorted sequence returns
\* exactly the subsequence of the records whose key is non-empty and occurs
\* there for the first time: every record with an empty key is dropped, and
\* for each key the record kept is the one the sort ranks highest.
C21_DedupKeepsFirstOccurrences ==
    rank_pc = "deduped" =>
        LET S == sort_by_priority(ir_input)
        IN  /\ IsSubsequenceAt(ir_list, S, FirstOccurrences(S))
            /\ \A i \in 1..Len(ir_list) : ir_list[i].stock_code # ""
            /\ \A i \in 1..Len(ir_list) : \A j \in 1..Len(ir_input) :
                  ir_input[j].stock_code = ir_list[i].stock_code =>
                      ~KeyLess(SortKey(ir_input[j]), SortKey(ir_list[i]))

\* a dividend and, fetched after it, a tender offer of company 7203, and a
\* record without a key: the tender offer is kept, the other two are dropped
C21_Witness ==
    /\ rank_pc = "deduped"
    /\ Len(ir_input) = 3
    /\ ir_input[1].stock_code = "7203" /\ ir_input[1].ir_type = "dividend"
    /\ ir_input[2].stock_code = ""
    /\ ir_input[3].stock_code = "7203" /\ ir_input[3].ir_type = "tender_offer"
    /\ ir_list = <<ir_input[3]>>

\* C22: the sort is stable: two records with the same (rank, importance) key
\* stand in the output in the order in which they were fetched, so of the
\* equal-key records of one company the one fetched first is the one kept.
C22_EqualKeysKeepFetchOrder ==
    rank_pc \in {"sorted", "deduped", "selected"} =>
        /\ \A i, j \in 1..Len(ir_list) :
              (i < j /\ SortKey(ir_list[i]) = SortKey(ir_list[j]))
                  => ir_list[i].id < ir_list[j].id
        /\ rank_pc # "sorted" =>
              \A i \in 1..Len(ir_list) : \A j \in 1..Len(ir_input) :
                  (/\ ir_input[j].stock_code = ir_list[i].stock_code
                   /\ SortKey(ir_input[j]) = SortKey(ir_list[i]))
                      => ir_list[i].id <= ir_input[j].id

\* three records of one key, the first and the third of company 7203, behind
\* a record the sort moves: the first of the two is the one selected
C22_Witness ==
    /\ rank_pc = "selected"
    /\ Len(ir_input) = 3
    /\ SortKey(ir_input[1]) = SortKey(ir_input[3])
    /\ ir_input[1].stock_code = "7203" /\ ir_input[3].stock_code = "7203"
    /\ ir_input[2].stock_code = "6758"
    /\ KeyLess(SortKey(ir_input[2]), SortKey(ir_input[1]))
    /\ ir_list = <<ir_input[2], ir_input[1]>>

(***************************************************************************)
(* summarize_to_one_sentence, called on one answer.                        *)
(***************************************************************************)
\* ---- summarize_to_one_sentence on one answer of the service
InitSpan ==
    /\ \E k \in 0..MaxPieces : span_content \in [1..k -> SpanPieces]
    /\ span_returned = <<>>
    /\ span_pc = "call"
    /\ StarsIdle
    /\ RankIdle
    /\ OrchIdle
    /\ ImageIdle
    /\ TweetIdle
    /\ CopyIdle

CallSummarize ==
    /\ span_pc = "call"
    /\ span_returned' = summarize_to_one_sentence(<<Piece_Words>>, Response(span_content))
    /\ span_pc' = "returned"
    /\ UNCHANGED <<span_content, starsVars, rankVars, orchVars, imageVars, tweetVars,
                   copyVars>>

NextSpan == CallSummarize

SpecSpan == InitSpan /\ [][NextSpan]_vars

\* C23: what summarize_to_one_sentence returns for an answer of the service
\* has as many opening as closing span tags, and no span tag at all when
\* the counts of the answer differ, whatever the attributes of its tags.
C23_SpanMarkupBalancedOrStripped ==
    span_pc = "returned" =>
        /\ count_open_span(span_returned) = count_close_span(span_returned)
        /\ count_open_span(span_content) # count_close_span(span_content)
              => count_open_span(span_returned) + count_close_span(span_returned) = 0

(***************************************************************************)
(* Faults of the generation service in the image pipeline.                 *)
(***************************************************************************)
SomeFault(faults) == \E i \in 1..Len(faults) : faults[i]

HasRun(stage) == \E i \in 1..Len(img_stages) : img_stages[i] = stage

\* C24: a fault of a generation call for one record does not fail the
\* pipeline: summarize_to_one_sentence returns the record's unmodified
\* summary and _generate_keyword_with_ai the empty string, every selected
\* record is processed, and the stages behind the call are run.
C24_GenerationFaultContained ==
    /\ Len(sum_faults) = Len(summary_list)
    /\ \A i \in 1..Len(sum_faults) :
          sum_faults[i] =>
              summary_list[i].one_sentence_summary = summary_list[i].short_summary
    /\ SomeFault(sum_faults) =>
          /\ img_ended # "summarize_raised"
          /\ img_pc = "html" \/ HasRun("html")
    /\ Len(keywords) = Len(kw_faults)
    /\ kw_faults # <<>> => Len(kw_faults) = Len(summary_list)
    /\ \A i \in 1..Len(kw_faults) : kw_faults[i] => keywords[i] = <<>>
    /\ (SomeFault(kw_faults) /\ img_ended # "html_raised") =>
          IF script = "4_IR_ImageGenerator"
          THEN img_pc = "capture" \/ HasRun("capture")
          ELSE main_result = "html"

\* two records; the summary call of the first and the keyword call of the
\* second faulted; the second record has its generated sentence, the first
\* its keyword, and the image was captured
C24_Witness ==
    /\ script = "4_IR_ImageGenerator"
    /\ Len(summary_list) = 2
    /\ sum_faults = <<TRUE, FALSE>>
    /\ kw_faults = <<FALSE, TRUE>>
    /\ summary_list[1].short_summary = <<Piece_Words>>
    /\ summary_list[1].one_sentence_summary = <<Piece_Words>>
    /\ summary_list[2].one_sentence_summary = <<Tag_OpenBold, Piece_Words, Tag_Close>>
    /\ keywords[1] # <<>>
    /\ keywords[2] = <<>>
    /\ img_ended = "captured"
    /\ img_exit_code = 0

(***************************************************************************)
(* Further properties of one run of the orchestrator.                      *)
(***************************************************************************)
\* C25: a network failure of the fetch call (timeout, connection or HTTP
\* error) is not fatal: fetch_irs returns an empty list instead of raising,
\* the attempt does not reach the except clause of main_with_retry, and the
\* run goes on as for an empty window: main returns True and no further
\* attempt is made.
C25_NetworkFailureNotFatal ==
    \A i \in 1..Len(log) :
        log[i].ended = "network_error" =>
            /\ wp_posts = <<>>
            /\ success = "True"
            /\ pc # "except"
            /\ error_msg # i
            /\ attempt = i
            /\ Len(log) = i

\* a run whose second attempt met the network failure, behind a first
\* attempt that raised: it ended with exit code 0 and without a notification
C25_Witness ==
    /\ pc = "exited"
    /\ Len(log) = 2
    /\ log[1].ended = "generate_raised"
    /\ log[2].ended = "network_error"
    /\ error_msg = 1
    /\ retry_result = "True"
    /\ exit_code = 0
    /\ notify_calls = 0

\* the stage in which an attempt that ended with an exception raised it
RaisingStage(ended) ==
    CASE ended = "fetch_raised"    -> "fetch"
      [] ended = "select_raised"   -> "select"
      [] ended = "generate_raised" -> "generate"
      [] ended = "publish_raised"  -> "publish"

\* C26: within one attempt the stages run in pipeline order, each once; a
\* fault raised in a stage ends the attempt as failed at once: the raising
\* stage is the last stage of the attempt, no stage runs in an attempt that
\* has ended, and no publish call is made in an attempt in which an earlier
\* stage raised.
C26_FaultEndsAttemptAtOnce ==
    /\ [](\A i \in 1..Len(log) :
            /\ Len(log[i].stages) <= Len(PipelineOrder)
            /\ \A k \in 1..Len(log[i].stages) : log[i].stages[k] = PipelineOrder[k]
            /\ AttemptRaised(i) =>
                  /\ log[i].stages[Len(log[i].stages)] = RaisingStage(log[i].ended)
                  /\ (log[i].ended # "publish_raised" => "publish" \notin StagesOf(i))
                  /\ ((i = Len(log) /\ Terminated) => retry_result = "False"))
    /\ [][Len(log') > Len(log) =>
              /\ Len(log') = attempt
              /\ log'[Len(log')].stages = stages'
              /\ (log'[Len(log')].ended \in {"fetch_raised", "select_raised",
                                             "generate_raised", "publish_raised"}
                     => pc' = "except")]_vars
    /\ [][stages' # stages =>
              \/ stages' = <<>> /\ attempt' = attempt + 1
              \/ /\ Len(stages') = Len(stages) + 1
                 /\ attempt' = attempt
                 /\ Len(log) = attempt - 1]_vars

\* an attempt whose select stage raised: it ran the fetch and the select
\* stage only, and the next attempt ran all four stages and posted
C26_Witness ==
    /\ Len(log) = 2
    /\ log[1] = [ended |-> "select_raised", stages |-> <<"fetch", "select">>]
    /\ log[2] = [ended |-> "posted", stages |-> PipelineOrder]
    /\ tweets_created = 1
    /\ pc = "exited"

\* C27, as claimed: in a run that is no dry run, an attempt whose fetch
\* returned at least one record reports success only if the publish call of
\* that attempt returned a confirmation of the post.
C27_SuccessOnlyAfterPost ==
    ~dry_run =>
        \A i \in 1..Len(log) :
            (AttemptSucceeded(i) /\ "select" \in StagesOf(i)) =>
                /\ log[i].ended = "posted"
                /\ "publish" \in StagesOf(i)
                /\ tweets_created >= 1

\* C28, as claimed: whenever the publish call is made, the ranked selection
\* whose text it publishes holds at least one record; a window whose records
\* all have an empty company key is never published as header and footer
\* only.
C28_PublishedSelectionNonEmpty ==
    [][stages' = Append(stages, "publish") =>
          /\ Len(main_ir_list) >= 1
          /\ tweet_text >= 1]_vars

\* C29, as claimed: over all attempts of one run create_tweet creates at most
\* one post: once a post was created, no later attempt of the run makes the
\* publish call again, even if a fault was raised behind the creation.
C29_AtMostOnePost ==
    /\ [](tweets_created <= 1)
    /\ [][tweets_created >= 1 => stages' # Append(stages, "publish")]_vars

(***************************************************************************)
(* The copies of the ranker in IR-JsonToX-Image.py and 1_ir_summarizer.py, *)
(* beside that of IR-JsonToX.py modelled above.  get_importance_stars is   *)
(* the same text in the three files.                                       *)
(***************************************************************************)
Image_CATEGORY_PRIORITY ==
    [tender_offer |-> 1, m_and_a_alliance |-> 2, financial_summary |-> 3,
     business_update |-> 4, earnings_guidance |-> 5, dividend |-> 6,
     share_buyback |-> 7, capital_policy |-> 8, share_cancellation |-> 9,
     corporate_restructuring |-> 10, product_announcement |-> 11,
     executive_change |-> 12, sales_update |-> 13, esg_sustainability |-> 14,
     stock_option |-> 15, disclosure_update |-> 16, general_ir |-> 17]

Summarizer_CATEGORY_PRIORITY ==
    [tender_offer |-> 1, m_and_a_alliance |-> 2, financial_summary |-> 3,
     business_update |-> 4, earnings_guidance |-> 5, dividend |-> 6,
     share_buyback |-> 7, capital_policy |-> 8, share_cancellation |-> 9,
     corporate_restructuring |-> 10, product_announcement |-> 11,
     executive_change |-> 12, sales_update |-> 13, esg_sustainability |-> 14,
     stock_option |-> 15, disclosure_update |-> 16, general_ir |-> 17]

\* CATEGORY_PRIORITY.get(ir_type, 99)
Image_get_category_priority(ir_type) ==
    IF ir_type \in DOMAIN Image_CATEGORY_PRIORITY
    THEN Image_CATEGORY_PRIORITY[ir_type] ELSE 99

Summarizer_get_category_priority(ir_type) ==
    IF ir_type \in DOMAIN Summarizer_CATEGORY_PRIORITY
    THEN Summarizer_CATEGORY_PRIORITY[ir_type] ELSE 99

Files == {"IR-JsonToX", "IR-JsonToX-Image", "1_ir_summarizer"}

\* the key of sorted() in a copy
CopySortKey(file, x) ==
    <<IF file = "IR-JsonToX-Image"
      THEN Image_get_category_priority(x.ir_type)
      ELSE Summarizer_get_category_priority(x.ir_type),
      0 - get_importance_stars(x.importance)>>

\* sorted() of a copy: stable, by insertion behind the equal keys
RECURSIVE CopyInsert(_, _, _, _)
CopyInsert(file, srt, x, i) ==
    IF i > Len(srt) THEN Append(srt, x)
    ELSE IF KeyLess(CopySortKey(file, x), CopySortKey(file, srt[i]))
         THEN SubSeq(srt, 1, i - 1) \o <<x>> \o SubSeq(srt, i, Len(srt))
         ELSE CopyInsert(file, srt, x, i + 1)

RECURSIVE CopySortFrom(_, _, _, _)
CopySortFrom(file, lst, i, srt) ==
    IF i > Len(lst) THEN srt
    ELSE CopySortFrom(file, lst, i + 1, CopyInsert(file, srt, lst[i], 1))

Image_sort_by_priority(lst) == CopySortFrom("IR-JsonToX-Image", lst, 1, <<>>)

Summarizer_sort_by_priority(lst) == CopySortFrom("1_ir_summarizer", lst, 1, <<>>)

\* the loop of the copies: if stock_code and stock_code not in
\* seen_companies: add and append
RECURSIVE DedupLoopOneTest(_, _, _, _)
DedupLoopOneTest(lst, i, seen_companies, result) ==
    IF i > Len(lst) THEN result
    ELSE LET stock_code == lst[i].stock_code
         IN  IF stock_code # "" /\ stock_code \notin seen_companies
             THEN DedupLoopOneTest(lst, i + 1, seen_companies \cup {stock_code},
                                   Append(result, lst[i]))
             ELSE DedupLoopOneTest(lst, i + 1, seen_companies, result)

\* the test of the copy shortened to `if stock_code not in seen_companies`
Image_remove_duplicate_companies_keeps_empty(lst) ==
    DedupLoopKeepsEmpty(lst, 1, {}, <<>>)

Image_remove_duplicate_companies(lst) == DedupLoopOneTest(lst, 1, {}, <<>>)

Summarizer_remove_duplicate_companies(lst) == DedupLoopOneTest(lst, 1, {}, <<>>)

Image_select_top_n(lst, n) ==
    IF Len(lst) >= n THEN SubSeq(lst, 1, n) ELSE lst

Summarizer_select_top_n(lst, n) ==
    IF Len(lst) >= n THEN SubSeq(lst, 1, n) ELSE lst

\* ---- the three copies run on one extracted list: the lists of InitRank
\* and those of InitPriority
InitCopies ==
    /\ \/ \E k \in 0..MaxRecords :
             \E f \in [1..k -> MetaValues] : copy_input = Extracted(f, k)
       \/ \E a, b \in PriorityMetaValues :
             copy_input = Extracted(<<a, [b EXCEPT !.stock_code = "6758"]>>, 2)
    /\ copy_n = 0
    /\ copy_sorted = [file \in Files |-> <<>>]
    /\ copy_deduped = [file \in Files |-> <<>>]
    /\ copy_selected = [file \in Files |-> <<>>]
    /\ copy_pc = "extracted"
    /\ StarsIdle
    /\ RankIdle
    /\ OrchIdle
    /\ ImageIdle
    /\ TweetIdle
    /\ SpanIdle

CopySort ==
    /\ copy_pc = "extracted"
    /\ copy_sorted' =
          [file \in Files |->
              CASE file = "IR-JsonToX"       -> sort_by_priority(copy_input)
                [] file = "IR-JsonToX-Image" -> Image_sort_by_priority(copy_input)
                [] file = "1_ir_summarizer"  -> Summarizer_sort_by_priority(copy_input)]
    /\ copy_pc' = "sorted"
    /\ UNCHANGED <<copy_input, copy_n, copy_deduped, copy_selected, starsVars,
                   rankVars, orchVars, imageVars, tweetVars, spanVars>>

CopyDedup ==
    /\ copy_pc = "sorted"
    /\ copy_deduped' =
          [file \in Files |->
              CASE file = "IR-JsonToX" ->
                       remove_duplicate_companies(copy_sorted[file])
                [] file = "IR-JsonToX-Image" ->
                       Image_remove_duplicate_companies(copy_sorted[file])
                [] file = "1_ir_summarizer" ->
                       Summarizer_remove_duplicate_companies(copy_sorted[file])]
    /\ copy_pc' = "deduped"
    /\ UNCHANGED <<copy_input, copy_n, copy_sorted, copy_selected, starsVars,
                   rankVars, orchVars, imageVars, tweetVars, spanVars>>

CopySelect ==
    /\ copy_pc = "deduped"
    /\ \E n \in 0..MaxCount :
          /\ copy_n' = n
          /\ copy_selected' =
                [file \in Files |->
                    CASE file = "IR-JsonToX" ->
                             select_top_n(copy_deduped[file], n)
                      [] file = "IR-JsonToX-Image" ->
                             Image_select_top_n(copy_deduped[file], n)
                      [] file = "1_ir_summarizer" ->
                             Summarizer_select_top_n(copy_deduped[file], n)]
    /\ copy_pc' = "selected"
    /\ UNCHANGED <<copy_input, copy_sorted, copy_deduped, starsVars, rankVars,
                   orchVars, imageVars, tweetVars, spanVars>>

NextCopies == CopySort \/ CopyDedup \/ CopySelect

SpecCopies == InitCopies /\ [][NextCopies]_vars

\* C30: the three copies of the ranker are equivalent: the CATEGORY_PRIORITY
\* tables have the same keys and values, and on every list, records with an
\* empty company key included, sort_by_priority, remove_duplicate_companies
\* and select_top_n return the same sequence in the three files.
C30_CopiesEquivalent ==
    /\ DOMAIN Image_CATEGORY_PRIORITY = KnownCategories
    /\ DOMAIN Summarizer_CATEGORY_PRIORITY = KnownCategories
    /\ \A ir_type \in KnownCategories :
          /\ Image_CATEGORY_PRIORITY[ir_type] = CATEGORY_PRIORITY(ir_type)
          /\ Summarizer_CATEGORY_PRIORITY[ir_type] = CATEGORY_PRIORITY(ir_type)
    /\ \A file \in Files :
          /\ copy_pc \in {"sorted", "deduped", "selected"} =>
                copy_sorted[file] = copy_sorted["IR-JsonToX"]
          /\ copy_pc \in {"deduped", "selected"} =>
                copy_deduped[file] = copy_deduped["IR-JsonToX"]
          /\ copy_pc = "selected" =>
                copy_selected[file] = copy_selected["IR-JsonToX"]

\* a list with a record without a company key between two records of one
\* company, which the sort reorders: the three copies selected the same one
\* record
C30_Witness ==
    /\ copy_pc = "selected"
    /\ copy_n = 2
    /\ Len(copy_input) = 3
    /\ copy_input[1].stock_code = "7203" /\ copy_input[1].ir_type = "dividend"
    /\ copy_input[2].stock_code = ""
    /\ copy_input[3].stock_code = "7203" /\ copy_input[3].ir_type = "tender_offer"
    /\ \A file \in Files : copy_selected[file] = <<copy_input[3]>>

====
